---- MODULE Spec2Model ----
(***************************************************************************)
(* Model of the task orchestrator of the research-paper summarizer        *)
(* (src/backend/main.py) together with the outcome of the hybrid           *)
(* extraction pipeline it calls (src/hybrid_summary_generator.py).         *)
(*                                                                         *)
(* All request handlers are "async def" coroutines without a single await, *)
(* so each one runs on the event loop without interleaving.  The only      *)
(* scheduling point is between a handler that returns and the background   *)
(* task it registered with BackgroundTasks.add_task: the background task   *)
(* starts after the response was sent, and other requests may be served in *)
(* between.  The variable "running" holds the coroutine that owns the      *)
(* event loop; the steps of one coroutine are separate actions only to     *)
(* make the intermediate values of the task record visible.                *)
(***************************************************************************)
EXTENDS Integers, Sequences, FiniteSets, TLC

\* ---------------------------------------------------------------- bounds
MaxUploads == 2      \* number of task identifiers uuid4 hands out in a run
MaxRequests == 3     \* number of HTTP requests served in a run

\* ------------------------------------------------------ program constants
MAX_FILE_SIZE == 52428800   \* 50 * 1024 * 1024

TaskIds == 1..MaxUploads

\* File names a client may send, as sequences of characters.
FileNames ==
    { <<"a", ".", "p", "d", "f">>,
      <<"A", ".", "P", "D", "F">>,
      <<"a", ".", "t", "x", "t">>,
      <<"p", "d", "f">> }

\* Sizes a client may send: empty, exactly the ceiling, one byte above it.
FileSizes == {0, MAX_FILE_SIZE, MAX_FILE_SIZE + 1}

\* str.lower() on one character of the alphabet used in FileNames.
LowerChar(c) ==
    CASE c = "A" -> "a"
      [] c = "P" -> "p"
      [] c = "D" -> "d"
      [] c = "F" -> "f"
      [] OTHER -> c

Lower(s) == [i \in 1..Len(s) |-> LowerChar(s[i])]

EndsWith(s, suffix) ==
    /\ Len(s) >= Len(suffix)
    /\ SubSeq(s, Len(s) - Len(suffix) + 1, Len(s)) = suffix

DotPdf == <<".", "p", "d", "f">>

\* upload_pdf: file.filename.lower().endswith(".pdf")
IsPdfName(filename) == EndsWith(Lower(filename), DotPdf)

\* mutant: the size test dropped
TooLargeNever(size) == FALSE

\* upload_pdf: file.size and file.size > MAX_FILE_SIZE
TooLarge(size) == size # 0 /\ size > MAX_FILE_SIZE

\* ----------------------------------------------------------------- state
VARIABLES
    processing_results,  \* the task table: task id -> task record (a dict)
    files,               \* task ids whose uploaded file exists in UPLOAD_DIR
    background_tasks,    \* task id -> number of scheduled, not yet started
                         \* process_paper_background(task_id) coroutines
    running,             \* the coroutine that owns the event loop
    request,             \* the request served last or being served
    response,            \* the response to the request served last
    served,              \* number of requests answered so far
    next_uuid,           \* the identifier the next uuid.uuid4() call returns
    generator,           \* the module-level generator: "None" or a record
    PYPDF2_AVAILABLE     \* import flag of hybrid_summary_generator

\* State of one HybridSummaryGenerator instance and of its GROBID processor
\* while they work on pipeline calls (src/hybrid_summary_generator.py,
\* src/scripts/parse_pdf_optimized.py).
VARIABLES
    processing_stats,    \* generator.processing_stats
    timeout_strategies,  \* grobid_processor.timeout_strategies
    pc,                  \* position of the generator in the current call
    pdf,                 \* the file the current call works on
    hc,                  \* locals of the running check_grobid_health call
    call                 \* what the current call has done so far

\* Inputs and outputs of the text functions of src/scripts/preprocess_text.py.
VARIABLES
    clean_run,           \* a text, its cleaned form, the cleaned form cleaned
    chunk_run,           \* a sentence list, a model type and the chunks
    extract_run          \* the text of a PDF and what the fallback extracts

TaskVars == <<processing_results, files, background_tasks, running, request,
              response, served, next_uuid>>

PipelineVars == <<processing_stats, timeout_strategies, pc, pdf, hc, call>>

TextVars == <<clean_run, chunk_run, extract_run>>

vars == <<processing_results, files, background_tasks, running, request,
          response, served, next_uuid, generator, PYPDF2_AVAILABLE,
          processing_stats, timeout_strategies, pc, pdf, hc, call,
          clean_run, chunk_run, extract_run>>

Statuses == {"uploaded", "processing", "completed", "failed"}

\* A key that is missing from a dict (dict.get returns None).
None == [kind |-> "None"]

Idle == [kind |-> "idle"]

NoResponse == [op |-> "none"]

NoRequest == [op |-> "none"]

\* A request that names a task.
TaskRequest(op, task_id) == [op |-> op, task_id |-> task_id]

\* --------------------------------------------------------------- pipeline
\* What the two extractors and the final json.dump do on one call: inputs
\* of the environment (the external service, the PDF library, the disk).
ExtractorOutcomes == {"ok", "fail"}

\* The dict process_single_paper builds after a successful extraction.
Summaries(processing_method) ==
    [kind |-> "summaries", processing_method |-> processing_method]

\* The dict process_single_paper returns when paper_data is None.
AllFailedDict ==
    [kind |-> "error_dict", error |-> "All extraction methods failed",
     status |-> "failed"]

Return(value) == [raised |-> FALSE, value |-> value]
Raise(message) == [raised |-> TRUE, message |-> message]

\* HybridSummaryGenerator.process_single_paper: GROBID first (when the
\* processor exists), then the PyPDF2 fallback when paper_data is still
\* None; an error dict is RETURNED when both failed; the summaries are
\* written to the output directory, which may raise.
process_single_paper(gen, grobid, pypdf2, save) ==
    LET paper_data ==
            IF gen.grobid_processor /\ grobid = "ok" THEN "GROBID_optimized"
            ELSE IF PYPDF2_AVAILABLE /\ pypdf2 = "ok" THEN "PyPDF2_fallback"
            ELSE "None"
    IN  IF paper_data = "None" THEN Return(AllFailedDict)
        ELSE IF save = "ok" THEN Return(Summaries(paper_data))
        ELSE Raise("OSError")

\* The try body of process_paper_background / process_paper_sync after the
\* status update: the generator test followed by the pipeline call.
RunPipeline(grobid, pypdf2, save) ==
    IF generator = None
    THEN Raise("HybridSummaryGenerator not available - check dependencies")
    ELSE process_single_paper(generator, grobid, pypdf2, save)

\* ------------------------------------------------------------ task records
\* The dict upload_pdf stores.  Timestamps are kept as "key present" flags.
NewTask(task_id, filename, size) ==
    [task_id |-> task_id, filename |-> filename, status |-> "uploaded",
     uploaded_at |-> TRUE, file_path |-> task_id, file_size |-> size,
     started_at |-> FALSE, completed_at |-> FALSE, failed_at |-> FALSE,
     result |-> None, error |-> "None"]

\* .update({"status": "processing", "started_at": ...})
MarkProcessing(task_info) ==
    [task_info EXCEPT !.status = "processing", !.started_at = TRUE]

\* mutant: the result is stored under the status "completed" only later
MarkCompletedNoResult(task_info, result) ==
    [task_info EXCEPT !.status = "completed", !.completed_at = TRUE]

\* .update({"status": "completed", "completed_at": ..., "result": result})
MarkCompleted(task_info, result) ==
    [task_info EXCEPT !.status = "completed", !.completed_at = TRUE,
                      !.result = result]

\* mutant: the except branch records the error but leaves the status
MarkFailedNoStatus(task_info, message) ==
    [task_info EXCEPT !.error = message, !.failed_at = TRUE]

\* .update({"status": "failed", "error": str(e), "failed_at": ...})
MarkFailed(task_info, message) ==
    [task_info EXCEPT !.status = "failed", !.error = message,
                      !.failed_at = TRUE]

\* The record after the pipeline call returned or raised.
Finish(task_info, outcome) ==
    IF outcome.raised THEN MarkFailed(task_info, outcome.message)
    ELSE MarkCompleted(task_info, outcome.value)

\* mutant: a failed task may be started again
NotUploadedAllowRetry(task_info) ==
    task_info.status \notin {"uploaded", "failed"}

\* process_paper / process_paper_sync: task_info["status"] != "uploaded"
NotUploaded(task_info) == task_info.status # "uploaded"

\* ------------------------------------------------- components at rest
\* HybridSummaryGenerator.__init__: processing_stats
InitialStats ==
    [grobid_success |-> 0, grobid_timeout |-> 0, pypdf2_fallback |-> 0,
     total_processed |-> 0]

\* OptimizedGROBIDProcessor.__init__: timeout_strategies
DefaultTimeouts ==
    [quick |-> 60, normal |-> 300, extended |-> 600, maximum |-> 900]

\* No check_grobid_health call is running.
NoHealthCheck == [state |-> "none"]

\* No pipeline call was made yet.
NoCall == [state |-> "none"]

NoPdf == [exists |-> FALSE, size |-> 0, is_pdf |-> TRUE]

\* The generator has been built and is not inside a call whose steps are
\* followed.
PipelineAtRest ==
    /\ processing_stats = InitialStats
    /\ timeout_strategies = DefaultTimeouts
    /\ pc = "ready"
    /\ pdf = NoPdf
    /\ hc = NoHealthCheck
    /\ call = NoCall

NoRun == [state |-> "none"]

\* No text function is being applied.
TextAtRest == clean_run = NoRun /\ chunk_run = NoRun /\ extract_run = NoRun

\* The task table of a server that has not served a request.
TasksAtRest ==
    /\ processing_results = <<>>
    /\ files = {}
    /\ background_tasks = [t \in TaskIds |-> 0]
    /\ running = Idle
    /\ request = NoRequest
    /\ response = NoResponse
    /\ served = 0
    /\ next_uuid = 1

\* ---------------------------------------------------------------- Init
Init ==
    /\ processing_results = <<>>
    /\ files = {}
    /\ background_tasks = [t \in TaskIds |-> 0]
    /\ running = Idle
    /\ request = NoRequest
    /\ response = NoResponse
    /\ served = 0
    /\ next_uuid = 1
    /\ generator \in {None} \cup
           { [kind |-> "HybridSummaryGenerator", grobid_processor |-> g] :
             g \in BOOLEAN }
    /\ PYPDF2_AVAILABLE \in BOOLEAN
    /\ PipelineAtRest
    /\ TextAtRest

\* A handler can start: the event loop is free and the run may go on.
CanServe == running = Idle /\ served < MaxRequests

Env == <<generator, PYPDF2_AVAILABLE, PipelineVars, TextVars>>

\* ------------------------------------------------------------- handlers
\* HTTPException raised by a handler.
HttpError(op, code, task_id, detail) ==
    [op |-> op, status_code |-> code, task_id |-> task_id, detail |-> detail]

\* mutant: the membership test is missing, the lookup raises KeyError and
\* the framework answers 500
NotFoundAsServerError(op, task_id) ==
    HttpError(op, 500, task_id, "Internal Server Error")

\* if task_id not in processing_results: raise HTTPException(404, ...)
NotFound(op, task_id) == HttpError(op, 404, task_id, "Task ID not found")

\* What the disk does while upload_pdf writes the file: the open fails, the
\* copy fails after the file was created, or the file is written.
SaveOutcomes == {"ok", "open_fails", "copy_fails"}

\* POST /upload-pdf/
upload_pdf(filename, size, save) ==
    /\ CanServe
    /\ request' = [op |-> "upload", filename |-> filename, size |-> size]
    /\ served' = served + 1
    /\ UNCHANGED <<background_tasks, running, Env>>
    /\ IF ~IsPdfName(filename)
       THEN /\ response' = HttpError("upload", 400, 0,
                                     "Only PDF files are allowed")
            /\ UNCHANGED <<processing_results, files, next_uuid>>
       ELSE IF TooLarge(size)
       THEN /\ response' = HttpError("upload", 400, 0, "File too large")
            /\ UNCHANGED <<processing_results, files, next_uuid>>
       ELSE /\ next_uuid <= MaxUploads
            /\ next_uuid' = next_uuid + 1
            /\ files' = IF save = "open_fails" THEN files
                        ELSE files \cup {next_uuid}
            /\ IF save = "ok"
               THEN /\ processing_results' = processing_results @@
                          (next_uuid :> NewTask(next_uuid, filename, size))
                    /\ response' = [op |-> "upload", status_code |-> 200,
                                    task_id |-> next_uuid,
                                    filename |-> filename,
                                    status |-> "uploaded"]
               ELSE /\ response' = HttpError("upload", 500, 0,
                                             "Failed to save file")
                    /\ UNCHANGED processing_results

\* POST /process/{task_id}/
process_paper(task_id) ==
    /\ CanServe
    /\ request' = TaskRequest("process", task_id)
    /\ served' = served + 1
    /\ UNCHANGED <<processing_results, files, running, next_uuid, Env>>
    /\ IF task_id \notin DOMAIN processing_results
       THEN /\ response' = NotFound("process", task_id)
            /\ UNCHANGED background_tasks
       ELSE IF NotUploaded(processing_results[task_id])
       THEN /\ response' = HttpError("process", 400, task_id,
                     <<"Task is already", processing_results[task_id].status>>)
            /\ UNCHANGED background_tasks
       ELSE /\ background_tasks' =
                   [background_tasks EXCEPT ![task_id] = @ + 1]
            /\ response' = [op |-> "process", status_code |-> 200,
                            task_id |-> task_id,
                            status |-> "processing_started"]

\* mutant: the except block stores a new record for the missing key
AfterKeyErrorStoresRecord(table, task_id) ==
    [t \in DOMAIN table \cup {task_id} |->
        IF t = task_id
        THEN MarkFailed(NewTask(task_id, <<>>, 0), "KeyError")
        ELSE table[t]]

\* The task table after processing_results[task_id].update(...) raised
\* KeyError in the try block and again in the except block.
AfterKeyError(table, task_id) == table

\* process_paper_background, first statement of the try block.  When the
\* task was deleted in the meantime the update raises KeyError, the update
\* in the except block raises KeyError again and the coroutine ends.
process_paper_background_start(task_id) ==
    /\ running = Idle
    /\ background_tasks[task_id] > 0
    /\ background_tasks' = [background_tasks EXCEPT ![task_id] = @ - 1]
    /\ UNCHANGED <<files, request, response, served, next_uuid, Env>>
    /\ IF task_id \in DOMAIN processing_results
       THEN /\ processing_results' =
                   [processing_results EXCEPT ![task_id] = MarkProcessing(@)]
            /\ running' = [kind |-> "background", task_id |-> task_id]
       ELSE /\ processing_results' =
                   AfterKeyError(processing_results, task_id)
            /\ UNCHANGED running

\* process_paper_background, the rest: the pipeline call and the update
\* with its result, or the except block.
process_paper_background_finish(grobid, pypdf2, save) ==
    /\ running.kind = "background"
    /\ processing_results' =
           [processing_results EXCEPT ![running.task_id] =
               Finish(@, RunPipeline(grobid, pypdf2, save))]
    /\ running' = Idle
    /\ UNCHANGED <<files, background_tasks, request, response, served,
                   next_uuid, Env>>

\* The keys get_processing_status puts into its response for a record.
StatusBody(task_id, task_info) ==
    LET base == [task_id |-> task_id, filename |-> task_info.filename,
                 status |-> task_info.status,
                 uploaded_at |-> task_info.uploaded_at]
    IN  CASE task_info.status = "processing" ->
                 base @@ [started_at |-> task_info.started_at,
                          message |-> "Processing in progress..."]
          [] task_info.status = "completed" ->
                 base @@ [started_at |-> task_info.started_at,
                          completed_at |-> task_info.completed_at,
                          result |-> task_info.result,
                          message |-> "Processing completed successfully"]
          [] task_info.status = "failed" ->
                 base @@ [failed_at |-> task_info.failed_at,
                          error |-> task_info.error,
                          message |-> "Processing failed"]
          [] OTHER -> base

\* GET /status/{task_id}/
get_processing_status(task_id) ==
    /\ CanServe
    /\ request' = TaskRequest("status", task_id)
    /\ served' = served + 1
    /\ UNCHANGED <<processing_results, files, background_tasks, running,
                   next_uuid, Env>>
    /\ IF task_id \notin DOMAIN processing_results
       THEN response' = NotFound("status", task_id)
       ELSE response' = [op |-> "status", status_code |-> 200,
                         task_id |-> task_id,
                         body |-> StatusBody(task_id,
                                             processing_results[task_id])]

\* POST /process-sync/{task_id}/, up to the status update in the try block.
process_paper_sync_start(task_id) ==
    /\ CanServe
    /\ request' = TaskRequest("process_sync", task_id)
    /\ UNCHANGED <<files, background_tasks, next_uuid, Env>>
    /\ IF task_id \notin DOMAIN processing_results
       THEN /\ response' = NotFound("process_sync", task_id)
            /\ served' = served + 1
            /\ UNCHANGED <<processing_results, running>>
       ELSE IF NotUploaded(processing_results[task_id])
       THEN /\ response' = HttpError("process_sync", 400, task_id,
                     <<"Task is already", processing_results[task_id].status>>)
            /\ served' = served + 1
            /\ UNCHANGED <<processing_results, running>>
       ELSE /\ processing_results' =
                   [processing_results EXCEPT ![task_id] = MarkProcessing(@)]
            /\ running' = [kind |-> "sync", task_id |-> task_id]
            /\ UNCHANGED <<response, served>>

\* mutant: the handler answers with the result before it stores it
SyncRecordStale(task_info, outcome) == task_info

\* The record process_paper_sync leaves behind when it returns.
SyncRecord(task_info, outcome) == Finish(task_info, outcome)

\* POST /process-sync/{task_id}/, the rest: the blocking pipeline call, the
\* update and the response, or the except block and the HTTP 500.
process_paper_sync_finish(grobid, pypdf2, save) ==
    /\ running.kind = "sync"
    /\ LET outcome == RunPipeline(grobid, pypdf2, save)
           task_id == running.task_id
       IN  /\ processing_results' =
                  [processing_results EXCEPT ![task_id] =
                      SyncRecord(@, outcome)]
           /\ response' =
                  IF outcome.raised
                  THEN HttpError("process_sync", 500, task_id,
                                 <<"Processing failed:", outcome.message>>)
                  ELSE [op |-> "process_sync", status_code |-> 200,
                        task_id |-> task_id, status |-> "completed",
                        result |-> outcome.value]
    /\ served' = served + 1
    /\ running' = Idle
    /\ UNCHANGED <<files, background_tasks, request, next_uuid, Env>>

\* The "tasks" list of GET /tasks/ for a task table.
TaskListing(table) ==
    { [task_id |-> t, filename |-> table[t].filename,
       status |-> table[t].status, uploaded_at |-> table[t].uploaded_at] :
      t \in DOMAIN table }

\* GET /tasks/
list_all_tasks ==
    /\ CanServe
    /\ request' = [op |-> "list"]
    /\ served' = served + 1
    /\ response' = [op |-> "list", status_code |-> 200,
                    total_tasks |-> Cardinality(DOMAIN processing_results),
                    tasks |-> TaskListing(processing_results)]
    /\ UNCHANGED <<processing_results, files, background_tasks, running,
                   next_uuid, Env>>

\* dict without one key
Remove(table, task_id) ==
    [t \in DOMAIN table \ {task_id} |-> table[t]]

\* mutant: delete keeps the record of a task that is not finished
TableAfterDeleteKeepUnfinished(table, task_id) ==
    IF table[task_id].status \in {"completed", "failed"}
    THEN Remove(table, task_id) ELSE table

\* delete_task: del processing_results[task_id]
TableAfterDelete(table, task_id) == Remove(table, task_id)

\* DELETE /tasks/{task_id}/
delete_task(task_id) ==
    /\ CanServe
    /\ request' = TaskRequest("delete", task_id)
    /\ served' = served + 1
    /\ UNCHANGED <<background_tasks, running, next_uuid, Env>>
    /\ IF task_id \notin DOMAIN processing_results
       THEN /\ response' = NotFound("delete", task_id)
            /\ UNCHANGED <<processing_results, files>>
       ELSE /\ files' = files \ {processing_results[task_id].file_path}
            /\ processing_results' =
                   TableAfterDelete(processing_results, task_id)
            /\ response' = [op |-> "delete", status_code |-> 200,
                            task_id |-> task_id]

Next ==
    \/ \E filename \in FileNames, size \in FileSizes, save \in SaveOutcomes :
           upload_pdf(filename, size, save)
    \/ \E task_id \in TaskIds : process_paper(task_id)
    \/ \E task_id \in TaskIds : process_paper_background_start(task_id)
    \/ \E grobid \in ExtractorOutcomes, pypdf2 \in ExtractorOutcomes,
          save \in ExtractorOutcomes :
           process_paper_background_finish(grobid, pypdf2, save)
    \/ \E task_id \in TaskIds : get_processing_status(task_id)
    \/ \E task_id \in TaskIds : process_paper_sync_start(task_id)
    \/ \E grobid \in ExtractorOutcomes, pypdf2 \in ExtractorOutcomes,
          save \in ExtractorOutcomes :
           process_paper_sync_finish(grobid, pypdf2, save)
    \/ list_all_tasks
    \/ \E task_id \in TaskIds : delete_task(task_id)

Spec == Init /\ [][Next]_vars

\* The event loop runs every coroutine it started to its end and starts
\* every background task that was registered; the pipeline call returns.
Fairness ==
    /\ \A task_id \in TaskIds :
           WF_vars(process_paper_background_start(task_id))
    /\ WF_vars(\E grobid \in ExtractorOutcomes, pypdf2 \in ExtractorOutcomes,
                  save \in ExtractorOutcomes :
                   process_paper_background_finish(grobid, pypdf2, save))
    /\ WF_vars(\E grobid \in ExtractorOutcomes, pypdf2 \in ExtractorOutcomes,
                  save \in ExtractorOutcomes :
                   process_paper_sync_finish(grobid, pypdf2, save))

LiveSpec == Init /\ [][Next]_vars /\ Fairness

TypeOK ==
    /\ DOMAIN processing_results \subseteq TaskIds
    /\ \A t \in DOMAIN processing_results :
           processing_results[t].status \in Statuses
    /\ files \subseteq TaskIds
    /\ running.kind \in {"idle", "background", "sync"}
    /\ served \in 0..MaxRequests

\* ================================================================ claims
Present(t) == t \in DOMAIN processing_results

Terminal == {"completed", "failed"}

\* Position of a status in the sequence uploaded -> processing -> terminal.
Rank(status) ==
    CASE status = "uploaded" -> 0
      [] status = "processing" -> 1
      [] OTHER -> 2

\* This step is a handler that ran from the arrival of a request of kind op
\* to its response.
Served(op) == running = Idle /\ served' = served + 1 /\ request'.op = op

\* This step is process_paper_sync accepting a request and entering its try.
SyncAccepted == running = Idle /\ running'.kind = "sync"

\* C1: a task's status only moves forward along uploaded -> processing ->
\* completed|failed; no record goes from a later status back to an earlier
\* one, in any interleaving of requests and background tasks.
C1_StatusMonotone ==
    [][\A t \in TaskIds :
         (Present(t) /\ t \in DOMAIN processing_results')
         => Rank(processing_results[t].status)
              <= Rank(processing_results'[t].status)]_vars

\* C2: of two "start processing" requests for one task, the second issued
\* before the first has completed, at most one is accepted: a task never has
\* two accepted process requests whose background tasks are both waiting.
C2_AtMostOneAccepted ==
    \A t \in TaskIds : background_tasks[t] <= 1

\* C3: a process or process-sync request on a task whose status is not
\* "uploaded" is rejected and causes no transition: the task table is
\* unchanged and no pipeline run is scheduled or started.
C3_RejectedStartNoTransition ==
    [][\A t \in TaskIds :
         /\ ( /\ Served("process") \/ Served("process_sync")
              /\ request'.task_id = t
              /\ Present(t)
              /\ processing_results[t].status # "uploaded" )
            => /\ response'.status_code = 400
               /\ processing_results' = processing_results
               /\ background_tasks' = background_tasks
               /\ running' = Idle
         /\ background_tasks'[t] > background_tasks[t]
            => Present(t) /\ processing_results[t].status = "uploaded"
         /\ (SyncAccepted /\ running'.task_id = t)
            => Present(t) /\ processing_results[t].status = "uploaded"]_vars

\* C3 witness: a process request on a completed task got HTTP 400.
C3_Witness ==
    /\ request.op = "process"
    /\ response.op = "process"
    /\ response.status_code = 400
    /\ Present(request.task_id)
    /\ processing_results[request.task_id].status = "completed"

\* C4: completed and failed are terminal: once a record has one of them, no
\* operation other than delete changes its status, result or error.
C4_TerminalIsFinal ==
    [][\A t \in TaskIds :
         ( /\ Present(t)
           /\ t \in DOMAIN processing_results'
           /\ processing_results[t].status \in Terminal )
         => /\ processing_results'[t].status = processing_results[t].status
            /\ processing_results'[t].result = processing_results[t].result
            /\ processing_results'[t].error = processing_results[t].error]_vars

\* C5: a delete request for a task in the table succeeds whatever the
\* task's status; afterwards the record and the uploaded file are gone and
\* the id is neither in the task table nor in the task listing.
C5_DeleteAlwaysLegal ==
    [][\A t \in TaskIds :
         (Served("delete") /\ request'.task_id = t /\ Present(t))
         => /\ response'.op = "delete"
            /\ response'.status_code = 200
            /\ t \notin DOMAIN processing_results'
            /\ processing_results[t].file_path \notin files'
            /\ \A entry \in TaskListing(processing_results') :
                   entry.task_id # t
            /\ \A u \in DOMAIN processing_results \ {t} :
                   /\ u \in DOMAIN processing_results'
                   /\ processing_results'[u] = processing_results[u]]_vars

\* C5 witness: a task was deleted while its background task was still
\* waiting (status "uploaded").
C5_Witness ==
    /\ response.op = "delete"
    /\ response.status_code = 200
    /\ ~Present(response.task_id)
    /\ response.task_id \notin files
    /\ background_tasks[response.task_id] > 0

\* C6: when both the external structuring service and the local fallback
\* extractor failed (the pipeline's "All extraction methods failed"
\* outcome), the task never ends in status "completed".
C6_BothFailedNeverCompleted ==
    \A t \in DOMAIN processing_results :
        processing_results[t].status = "completed"
        => processing_results[t].result # AllFailedDict

\* File names whose last four characters spell ".pdf" in any letter case.
SupportedNames ==
    { name \in FileNames :
        /\ Len(name) >= 4
        /\ name[Len(name) - 3] = "."
        /\ name[Len(name) - 2] \in {"p", "P"}
        /\ name[Len(name) - 1] \in {"d", "D"}
        /\ name[Len(name)] \in {"f", "F"} }

\* C7: an upload whose file name does not end in .pdf (case-insensitively)
\* or whose size is over the ceiling is answered with HTTP 400 in the same
\* request; no task identifier is generated, no file is stored and the task
\* table is unchanged.
C7_BadUploadRejected ==
    [][( /\ Served("upload")
         /\ \/ request'.filename \notin SupportedNames
            \/ request'.size > MAX_FILE_SIZE )
       => /\ response'.op = "upload"
          /\ response'.status_code = 400
          /\ processing_results' = processing_results
          /\ next_uuid' = next_uuid
          /\ files' = files]_vars

\* C7 witness: an oversized file with a supported name was rejected while
\* the table already held a task.
C7_Witness ==
    /\ request.op = "upload"
    /\ request.filename \in SupportedNames
    /\ request.size > MAX_FILE_SIZE
    /\ response.op = "upload"
    /\ response.status_code = 400
    /\ DOMAIN processing_results # {}

\* C8: an accepted upload leaves the task in status "uploaded"; an accepted
\* start-processing request is followed by status "processing" and then,
\* unless the task is deleted, by "completed" or "failed": no task stays in
\* "processing" forever (the pipeline call is assumed to return).
C8_ProcessingTerminates ==
    /\ [][(Served("upload") /\ response'.status_code = 200)
          => /\ response'.task_id \in DOMAIN processing_results'
             /\ processing_results'[response'.task_id].status = "uploaded"
         ]_vars
    /\ \A t \in TaskIds :
         /\ (background_tasks[t] > 0)
               ~> (~Present(t) \/ processing_results[t].status = "processing")
         /\ (Present(t) /\ processing_results[t].status = "processing")
               ~> (~Present(t) \/ processing_results[t].status \in Terminal)

\* C8 witness: a background run that raised left its task "failed".
C8_Witness ==
    \E t \in DOMAIN processing_results :
        /\ processing_results[t].status = "failed"
        /\ processing_results[t].error = "OSError"
        /\ request.op = "process"

\* C9: a record with status "completed" holds a result and one with status
\* "failed" holds an error message; the status response shows the record's
\* status, carries the result exactly when the status is completed and the
\* error exactly when it is failed.
C9_StatusConsistent ==
    /\ [](\A t \in DOMAIN processing_results :
            /\ processing_results[t].status = "completed"
               => processing_results[t].result # None
            /\ processing_results[t].status = "failed"
               => processing_results[t].error # "None")
    /\ [][(Served("status") /\ Present(request'.task_id))
          => LET body == response'.body
                 task_info == processing_results[request'.task_id]
             IN  /\ response'.status_code = 200
                 /\ body.status = task_info.status
                 /\ body.status # "processing"
                 /\ ("result" \in DOMAIN body) <=> (body.status = "completed")
                 /\ ("error" \in DOMAIN body) <=> (body.status = "failed")
                 /\ body.status = "completed"
                    => body.result = task_info.result /\ body.result # None
                 /\ body.status = "failed"
                    => body.error = task_info.error /\ body.error # "None"
         ]_vars

\* C9 witness: a status response for a failed task, carrying its error.
C9_Witness ==
    /\ response.op = "status"
    /\ response.status_code = 200
    /\ response.body.status = "failed"
    /\ response.body.error # "None"

\* C10: process-sync returns only after the task reached a terminal state:
\* a success response means the record is "completed" with the result that
\* was returned, an error response means the record is "failed" with the
\* error message, and the record is never "processing" when it returns.
C10_SyncReturnsTerminal ==
    [][(running.kind = "sync" /\ served' = served + 1)
       => LET task_info == processing_results'[running.task_id]
          IN  /\ response'.op = "process_sync"
              /\ response'.task_id = running.task_id
              /\ task_info.status # "processing"
              /\ response'.status_code \in {200, 500}
              /\ response'.status_code = 200
                 => /\ task_info.status = "completed"
                    /\ task_info.result = response'.result
              /\ response'.status_code = 500
                 => /\ task_info.status = "failed"
                    /\ response'.detail =
                           <<"Processing failed:", task_info.error>>]_vars

\* C10 witness: process-sync answered 200 and the record holds that result.
C10_Witness ==
    /\ response.op = "process_sync"
    /\ response.status_code = 200
    /\ Present(response.task_id)
    /\ processing_results[response.task_id].status = "completed"
    /\ processing_results[response.task_id].result = response.result
    /\ response.result.kind = "summaries"

\* C11: process, process-sync, status and delete requests for a task id
\* that is not in the task table are answered with HTTP 404 and leave the
\* task table, the stored files and the schedule unchanged.
C11_UnknownTaskNotFound ==
    [][( /\ \/ Served("process") \/ Served("process_sync")
            \/ Served("status") \/ Served("delete")
         /\ ~Present(request'.task_id) )
       => /\ response'.op = request'.op
          /\ response'.task_id = request'.task_id
          /\ response'.status_code = 404
          /\ processing_results' = processing_results
          /\ files' = files
          /\ background_tasks' = background_tasks
          /\ running' = Idle]_vars

\* C11 witness: a delete request for an id that is not in the table got 404
\* while another task is in the table.
C11_Witness ==
    /\ request.op = "delete"
    /\ response.op = "delete"
    /\ response.status_code = 404
    /\ ~Present(request.task_id)
    /\ DOMAIN processing_results # {}

\* =============================================== the extraction pipeline
\* One HybridSummaryGenerator instance followed step by step through its
\* construction and through process_single_paper calls.

MaxCalls == 2        \* number of process_single_paper calls in a run

MB == 1048576        \* 1024 * 1024

\* Sizes of the files handed to the pipeline: empty, just below 1 MB, and
\* the lower ends of the three larger size classes.
PdfSizes == {0, MB - 1, MB, 5 * MB, 15 * MB}

\* Paths handed to process_single_paper: a path with no file behind it, or
\* a file of some size; the path may or may not end in ".pdf".
Pdfs ==
    { [exists |-> FALSE, size |-> 0, is_pdf |-> p] : p \in BOOLEAN } \cup
    { [exists |-> TRUE, size |-> n, is_pdf |-> p] :
      n \in PdfSizes, p \in BOOLEAN }

\* OptimizedGROBIDProcessor.estimate_processing_time
estimate_processing_time(file) ==
    IF ~file.exists THEN "normal"
    ELSE IF file.size < MB THEN "quick"
    ELSE IF file.size < 5 * MB THEN "normal"
    ELSE IF file.size < 15 * MB THEN "extended"
    ELSE "maximum"

\* mutant: every tier above the estimated one is tried
StrategiesEscalateAll(base_strategy) ==
    CASE base_strategy = "quick" ->
             <<"quick", "normal", "extended", "maximum">>
      [] base_strategy = "normal" -> <<"normal", "extended", "maximum">>
      [] base_strategy = "extended" -> <<"extended", "maximum">>
      [] OTHER -> <<"maximum">>

\* process_with_fallback_strategies: the fallback sequence of a tier
Strategies(base_strategy) ==
    CASE base_strategy = "quick" -> <<"quick", "normal">>
      [] base_strategy = "normal" -> <<"normal", "extended">>
      [] base_strategy = "extended" -> <<"extended", "maximum">>
      [] OTHER -> <<"maximum">>

Min(a, b) == IF a < b THEN a ELSE b

\* process_single_paper: extract_with_grobid(pdf_path, timeout_limit=120)
ProcessTimeoutLimit == 120

\* extract_with_grobid: the override of grobid_processor.timeout_strategies
TimeoutsFor(timeout_limit) ==
    [quick |-> Min(60, timeout_limit), normal |-> Min(180, timeout_limit),
     extended |-> Min(300, timeout_limit), maximum |-> timeout_limit]

\* check_grobid_health: max_retries, retry_delays, endpoints
max_retries == 5
retry_delays == <<2, 5, 10, 15, 20>>
endpoints == <<"/api/isalive", "/api/isAlive">>

\* What one GET on a health endpoint gives: HTTP 200 with "true" in the
\* body, another answer, or a RequestException.
ProbeOutcomes == {"alive", "not_alive", "request_exception"}

\* The locals of check_grobid_health when it is entered.
HealthCheckStart(caller) ==
    [state |-> "running", caller |-> caller, attempt |-> 0, endpoint |-> 1,
     probes |-> 0, alive |-> 0, sleeps |-> <<>>, result |-> FALSE]

\* mutant: the health check also waits after the last round
WaitsAfterEveryRound(attempt) == attempt < max_retries

\* check_grobid_health: if attempt < max_retries - 1: time.sleep(...)
WaitsAfter(attempt) == attempt < max_retries - 1

\* check_grobid_health after one more probe with the given outcome.
HealthAfterProbe(h, outcome) ==
    LET probed == [h EXCEPT !.probes = @ + 1]
        slept == IF WaitsAfter(h.attempt)
                 THEN [probed EXCEPT
                          !.sleeps = Append(@, retry_delays[h.attempt + 1])]
                 ELSE probed
    IN  IF outcome = "alive"
        THEN [probed EXCEPT !.state = "returned", !.result = TRUE]
        ELSE IF h.endpoint < Len(endpoints)
        THEN [probed EXCEPT !.endpoint = @ + 1]
        ELSE IF h.attempt + 1 < max_retries
        THEN [slept EXCEPT !.attempt = @ + 1, !.endpoint = 1]
        ELSE [slept EXCEPT !.state = "returned", !.result = FALSE]

\* What one POST to /api/processFulltextDocument gives.
RequestOutcomes == {"200", "non200", "timeout", "connection_error"}

\* The record kept about a process_single_paper call.
CallStart(stats) ==
    [state |-> "running", stats0 |-> stats, probes |-> 0, health |-> "none",
     requests |-> <<>>, strategies |-> <<>>, attempt |-> 0,
     last_error |-> "None", fallbacks |-> 0,
     processing_method |-> "unknown", result |-> None]

\* extract_with_grobid: self.processing_stats["grobid_success"] += 1
CountGrobidSuccess(stats) ==
    [stats EXCEPT !.grobid_success = @ + 1]

\* mutant: the success counter is incremented before the parse call, so a
\* failed attempt is counted as well
GrobidRaisedCountsSuccess(stats, last_error) ==
    IF last_error = "Timeout"
    THEN [stats EXCEPT !.grobid_timeout = @ + 1, !.grobid_success = @ + 1]
    ELSE [stats EXCEPT !.grobid_success = @ + 1]

\* extract_with_grobid, except branch: a timeout is counted, then re-raised
GrobidRaised(stats, last_error) ==
    IF last_error = "Timeout"
    THEN [stats EXCEPT !.grobid_timeout = @ + 1]
    ELSE stats

\* extract_with_pypdf2: self.processing_stats["pypdf2_fallback"] += 1
CountFallback(stats) ==
    [stats EXCEPT !.pypdf2_fallback = @ + 1]

\* mutant: process_single_paper lets the exception of extract_with_grobid
\* escape
GrobidFailurePropagates(c) ==
    [c EXCEPT !.state = "returned", !.result = Raise("GROBID failed")]

\* process_single_paper: except Exception as e: print(...) -- the call goes
\* on with paper_data = None
GrobidFailureHandled(c) == c

\* Where the generator is after extract_with_grobid raised.
AfterGrobidFailure(c) == IF c.state = "returned" THEN "ready" ELSE "fallback"

\* mutant: a false health check does not stop parse_pdf_optimized
HealthGateOpen(healthy) == FALSE

\* parse_pdf_optimized: if not self.check_grobid_health(): raise ...
HealthGateClosed(healthy) == ~healthy

\* An instance under construction: _initialize_components creates the
\* processor and enters its health check when the GROBID module could be
\* imported; otherwise there is no processor.
PipelineInit ==
    /\ TasksAtRest
    /\ TextAtRest
    /\ PYPDF2_AVAILABLE \in BOOLEAN
    /\ processing_stats = InitialStats
    /\ timeout_strategies = DefaultTimeouts
    /\ pdf = NoPdf
    /\ call = NoCall
    /\ \E GROBID_AVAILABLE \in BOOLEAN :
         /\ generator = [kind |-> "HybridSummaryGenerator",
                         grobid_processor |-> GROBID_AVAILABLE]
         /\ hc = IF GROBID_AVAILABLE THEN HealthCheckStart("init")
                 ELSE NoHealthCheck
         /\ pc = IF GROBID_AVAILABLE THEN "init" ELSE "ready"

\* check_grobid_health: one requests.get and what follows it up to the next
\* one or to the return.
check_grobid_health(outcome) ==
    /\ hc.state = "running"
    /\ hc' = [HealthAfterProbe(hc, outcome) EXCEPT
                 !.alive = IF outcome = "alive" THEN @ + 1 ELSE @]
    /\ call' = IF hc.caller = "parse"
               THEN [call EXCEPT !.probes = @ + 1]
               ELSE call
    /\ UNCHANGED <<TaskVars, TextVars, generator, PYPDF2_AVAILABLE,
                   processing_stats, timeout_strategies, pc, pdf>>

\* _initialize_components: the processor is dropped when the health check
\* returned False.
initialize_components ==
    /\ pc = "init"
    /\ hc.state = "returned"
    /\ generator' = [generator EXCEPT !.grobid_processor = hc.result]
    /\ pc' = "ready"
    /\ hc' = NoHealthCheck
    /\ UNCHANGED <<TaskVars, TextVars, PYPDF2_AVAILABLE, processing_stats,
                   timeout_strategies, pdf, call>>

\* process_single_paper up to the first call that leaves the generator:
\* the counter, then extract_with_grobid and the input validation of
\* parse_pdf_optimized when there is a processor.
process_single_paper_start(file) ==
    /\ pc = "ready"
    /\ processing_stats.total_processed < MaxCalls
    /\ pdf' = file
    /\ processing_stats' =
           [processing_stats EXCEPT !.total_processed = @ + 1]
    /\ IF generator.grobid_processor
       THEN /\ timeout_strategies' = TimeoutsFor(ProcessTimeoutLimit)
            /\ IF ~file.exists \/ ~file.is_pdf
               THEN /\ call' = GrobidFailureHandled(
                                   CallStart(processing_stats))
                    /\ pc' = AfterGrobidFailure(call')
                    /\ UNCHANGED hc
               ELSE /\ call' = CallStart(processing_stats)
                    /\ pc' = "health"
                    /\ hc' = HealthCheckStart("parse")
       ELSE /\ call' = CallStart(processing_stats)
            /\ pc' = "fallback"
            /\ UNCHANGED <<timeout_strategies, hc>>
    /\ UNCHANGED <<TaskVars, TextVars, generator, PYPDF2_AVAILABLE>>

\* parse_pdf_optimized after its health check: ConnectionError when it was
\* False, else process_with_fallback_strategies is entered.
parse_pdf_optimized ==
    /\ pc = "health"
    /\ hc.state = "returned"
    /\ hc' = NoHealthCheck
    /\ IF HealthGateClosed(hc.result)
       THEN /\ call' = GrobidFailureHandled(
                           [call EXCEPT !.health = "unhealthy"])
            /\ pc' = AfterGrobidFailure(call')
       ELSE /\ pc' = "attempt"
            /\ call' = [call EXCEPT
                   !.health = IF hc.result THEN "healthy" ELSE "unhealthy",
                   !.strategies = Strategies(estimate_processing_time(pdf)),
                   !.attempt = 1]
    /\ UNCHANGED <<TaskVars, TextVars, generator, PYPDF2_AVAILABLE,
                   processing_stats, timeout_strategies, pdf>>

\* process_with_fallback_strategies: one pass of the loop, that is one
\* process_pdf_with_strategy call with its request, and the raise after
\* the last strategy as extract_with_grobid handles it.
process_with_fallback_strategies(outcome) ==
    /\ pc = "attempt"
    /\ LET strategy == call.strategies[call.attempt]
           sent == [call EXCEPT
                      !.requests = Append(@,
                          [strategy |-> strategy,
                           timeout |-> timeout_strategies[strategy],
                           outcome |-> outcome]),
                      !.last_error =
                          CASE outcome = "timeout" -> "Timeout"
                            [] outcome = "connection_error" -> "ConnectionError"
                            [] OTHER -> @]
       IN  IF outcome = "200"
           THEN /\ call' = sent
                /\ pc' = "tei"
                /\ UNCHANGED processing_stats
           ELSE IF call.attempt < Len(call.strategies)
           THEN /\ call' = [sent EXCEPT !.attempt = @ + 1]
                /\ UNCHANGED <<pc, processing_stats>>
           ELSE /\ call' = GrobidFailureHandled(sent)
                /\ pc' = AfterGrobidFailure(call')
                /\ processing_stats' =
                       GrobidRaised(processing_stats, sent.last_error)
    /\ UNCHANGED <<TaskVars, TextVars, generator, PYPDF2_AVAILABLE,
                   timeout_strategies, pdf, hc>>

\* parse_pdf_optimized after an HTTP 200: the TEI file is written and
\* parsed; extract_with_grobid counts the success.
parse_tei_xml(outcome) ==
    /\ pc = "tei"
    /\ IF outcome = "ok"
       THEN /\ processing_stats' = CountGrobidSuccess(processing_stats)
            /\ call' = [call EXCEPT !.processing_method = "GROBID_optimized"]
            /\ pc' = "summarise"
       ELSE /\ processing_stats' = GrobidRaised(processing_stats, "Exception")
            /\ call' = GrobidFailureHandled(call)
            /\ pc' = AfterGrobidFailure(call')
    /\ UNCHANGED <<TaskVars, TextVars, generator, PYPDF2_AVAILABLE,
                   timeout_strategies, pdf, hc>>

\* process_single_paper, strategy 2, and the return of the error dict when
\* paper_data is still None after it.  PyPDF2 cannot read a file that is
\* missing or empty.
extract_with_pypdf2(outcome) ==
    /\ pc = "fallback"
    /\ outcome = "ok" => (pdf.exists /\ pdf.size > 0)
    /\ IF ~PYPDF2_AVAILABLE
       THEN /\ outcome = "fail"
            /\ call' = [call EXCEPT !.state = "returned",
                                    !.result = Return(AllFailedDict)]
            /\ pc' = "ready"
            /\ UNCHANGED processing_stats
       ELSE IF outcome = "ok"
       THEN /\ call' = [call EXCEPT !.fallbacks = @ + 1,
                           !.processing_method = "PyPDF2_fallback"]
            /\ processing_stats' = CountFallback(processing_stats)
            /\ pc' = "summarise"
       ELSE /\ call' = [call EXCEPT !.fallbacks = @ + 1,
                           !.state = "returned",
                           !.result = Return(AllFailedDict)]
            /\ pc' = "ready"
            /\ UNCHANGED processing_stats
    /\ UNCHANGED <<TaskVars, TextVars, generator, PYPDF2_AVAILABLE,
                   timeout_strategies, pdf, hc>>

\* process_single_paper, the rest: the summaries are built and written to
\* the output directory.
process_single_paper_save(save) ==
    /\ pc = "summarise"
    /\ call' = [call EXCEPT
                  !.state = "returned",
                  !.result = IF save = "ok"
                             THEN Return(Summaries(call.processing_method))
                             ELSE Raise("OSError")]
    /\ pc' = "ready"
    /\ UNCHANGED <<TaskVars, TextVars, generator, PYPDF2_AVAILABLE,
                   processing_stats, timeout_strategies, pdf, hc>>

PipelineNext ==
    \/ \E outcome \in ProbeOutcomes : check_grobid_health(outcome)
    \/ initialize_components
    \/ \E file \in Pdfs : process_single_paper_start(file)
    \/ parse_pdf_optimized
    \/ \E outcome \in RequestOutcomes :
           process_with_fallback_strategies(outcome)
    \/ \E outcome \in ExtractorOutcomes : parse_tei_xml(outcome)
    \/ \E outcome \in ExtractorOutcomes : extract_with_pypdf2(outcome)
    \/ \E save \in ExtractorOutcomes : process_single_paper_save(save)

PipelineSpec == PipelineInit /\ [][PipelineNext]_vars

\* ------------------------------------------------- claims on the pipeline
\* The current call sent every structuring request of its strategy list
\* and none was answered with HTTP 200.
FailedAtEveryTier ==
    /\ call.state # "none"
    /\ call.requests # <<>>
    /\ Len(call.requests) = Len(call.strategies)
    /\ \A i \in 1..Len(call.requests) : call.requests[i].outcome # "200"

TierRank(tier) ==
    CASE tier = "quick" -> 1
      [] tier = "normal" -> 2
      [] tier = "extended" -> 3
      [] OTHER -> 4

\* process_with_fallback_strategies has been entered and left by the call.
StructuringDone ==
    /\ call.state # "none"
    /\ call.health = "healthy"
    /\ pc # "attempt"

\* C13: one call of process_with_fallback_strategies sends its first
\* structuring request at the estimated tier and, when that one timed out,
\* exactly one more at the next-larger tier; it never sends more than two
\* requests, sends exactly one when the estimated tier is "maximum", and
\* never uses a tier below the estimated one.
C13_TierEscalationBounded ==
    call.state # "none"
    => LET n == Len(call.requests)
           base == estimate_processing_time(pdf)
       IN  /\ n <= 2
           /\ \A i \in 1..n :
                  TierRank(call.requests[i].strategy) >= TierRank(base)
           /\ n >= 1 => call.requests[1].strategy = base
           /\ n = 2
              => /\ TierRank(call.requests[2].strategy) = TierRank(base) + 1
                 /\ call.requests[1].outcome # "200"
           /\ StructuringDone
              => /\ n >= 1
                 /\ base = "maximum" => n = 1
                 /\ (base # "maximum" /\ call.requests[1].outcome = "timeout")
                    => n = 2

\* C13 witness: the request at "quick" timed out and one at "normal" was
\* sent, which timed out as well.
C13_Witness ==
    /\ StructuringDone
    /\ Len(call.requests) = 2
    /\ call.requests[1].strategy = "quick"
    /\ call.requests[1].outcome = "timeout"
    /\ call.requests[2].strategy = "normal"
    /\ call.requests[2].outcome = "timeout"

\* C14: after a structuring request failed without a timeout (connection
\* error or non-200 answer) no further structuring request is sent in this
\* call: such a request is the last one of the call.
C14_NonTimeoutAbandons ==
    call.state # "none"
    => \A i \in 1..Len(call.requests) :
           call.requests[i].outcome \in {"non200", "connection_error"}
           => i = Len(call.requests)

\* C15: a health check that returned False gates the primary path: at
\* construction it leaves the generator without processor, and a generator
\* without processor sends neither probes nor structuring requests and goes
\* straight to the fallback; at the start of a parse no structuring request
\* follows and the call goes straight to the fallback.
C15_HealthGate ==
    /\ [](call.state # "none"
          => /\ call.health = "unhealthy" => call.requests = <<>>
             /\ ~generator.grobid_processor
                => call.requests = <<>> /\ call.probes = 0)
    /\ [][ /\ (hc.state = "returned" /\ ~hc.result /\ hc' = NoHealthCheck)
              => IF hc.caller = "init"
                 THEN ~generator'.grobid_processor /\ pc' = "ready"
                 ELSE pc' = "fallback" /\ call'.requests = <<>>
           /\ (pc = "ready" /\ pc' # "ready" /\ ~generator.grobid_processor)
              => pc' = "fallback" ]_vars

\* C15 witness: the health check at the start of a parse returned False
\* after ten probes and the fallback extractor was run.
C15_Witness ==
    /\ call.state = "returned"
    /\ call.health = "unhealthy"
    /\ call.probes = 10
    /\ call.requests = <<>>
    /\ call.fallbacks = 1

\* The waits between the five rounds of the health check.
ExpectedWaits == <<2, 5, 10, 15>>

\* C16: check_grobid_health returns False only after 5 rounds of 2 probes
\* (10 probes, none alive) with waits of 2, 5, 10 and 15 seconds between
\* consecutive rounds and none after the last; it returns True at the first
\* probe that is alive, without further probes.
C16_HealthCheckExhaustive ==
    hc.state \in {"running", "returned"}
    => /\ hc.sleeps = SubSeq(ExpectedWaits, 1, hc.attempt)
       /\ hc.state = "running"
          => /\ hc.alive = 0
             /\ hc.probes = 2 * hc.attempt + hc.endpoint - 1
             /\ hc.probes < 10
       /\ (hc.state = "returned" /\ ~hc.result)
          => /\ hc.probes = 10
             /\ hc.alive = 0
             /\ hc.sleeps = ExpectedWaits
       /\ (hc.state = "returned" /\ hc.result)
          => /\ hc.alive = 1
             /\ hc.probes = 2 * hc.attempt + hc.endpoint

\* C16 witness: a health check returned False.
C16_Witness ==
    /\ hc.state = "returned"
    /\ ~hc.result
    /\ hc.probes = 10
    /\ hc.sleeps = <<2, 5, 10, 15>>

\* C17: for a zero-length or missing file the call makes no call to the
\* external service: no health probe and no structuring request.
C17_NoServiceCallForBadFile ==
    (call.state # "none" /\ (~pdf.exists \/ pdf.size = 0))
    => call.probes = 0 /\ call.requests = <<>>

\* 1 when the condition holds, else 0.
One(cond) == IF cond THEN 1 ELSE 0

\* C18: each call adds one to total_processed; when it has returned,
\* grobid_success has grown by one exactly when the path that produced the
\* document is the primary one and pypdf2_fallback exactly when it is the
\* fallback, neither has grown when no document was produced, and
\* grobid_success + pypdf2_fallback <= total_processed throughout.
C18_StatsMatchPath ==
    /\ processing_stats.grobid_success + processing_stats.pypdf2_fallback
           <= processing_stats.total_processed
    /\ call.state # "none"
       => processing_stats.total_processed = call.stats0.total_processed + 1
    /\ call.state = "returned"
       => /\ processing_stats.grobid_success = call.stats0.grobid_success
                 + One(call.processing_method = "GROBID_optimized")
          /\ processing_stats.pypdf2_fallback = call.stats0.pypdf2_fallback
                 + One(call.processing_method = "PyPDF2_fallback")
          /\ call.result = Return(AllFailedDict)
             <=> call.processing_method = "unknown"
          /\ (~call.result.raised /\ call.result.value.kind = "summaries")
             => call.result.value.processing_method = call.processing_method

\* C18 witness: the second call of a generator took the fallback path after
\* the first one took the primary path.
C18_Witness ==
    /\ call.state = "returned"
    /\ call.stats0.grobid_success = 1
    /\ call.result = Return(Summaries("PyPDF2_fallback"))
    /\ processing_stats = [grobid_success |-> 1, grobid_timeout |-> 1,
                           pypdf2_fallback |-> 1, total_processed |-> 2]

\* ------------------------------------------------------- text cleaner
\* A text is a sequence of one-character strings.  The texts of a run are
\* drawn from Chars; the character classes below are the ones the regular
\* expressions of preprocess_text.py use.
MaxTextLen == 4      \* length of the raw texts
MaxCleanRuns == 2    \* applications of the cleaner to one text

Chars == {"a", "1", ",", ".", "-", " "}
Texts == UNION { [1..n -> Chars] : n \in 0..MaxTextLen }

Whitespace == {" ", "\t", "\n"}                      \* \s
Punctuation == {",", ".", "!", "?", ";", ":"}        \* [,.!?;:]
LowerLetters ==
    {"a", "b", "c", "d", "e", "f", "g", "h", "i", "j", "k", "l", "m",
     "n", "o", "p", "q", "r", "s", "t", "u", "v", "w", "x", "y", "z"}
UpperLetters ==
    {"A", "B", "C", "D", "E", "F", "G", "H", "I", "J", "K", "L", "M",
     "N", "O", "P", "Q", "R", "S", "T", "U", "V", "W", "X", "Y", "Z"}
Letters == LowerLetters \cup UpperLetters            \* [a-zA-Z]
Digits == {"0", "1", "2", "3", "4", "5", "6", "7", "8", "9"}   \* \d
WordChars == Letters \cup Digits \cup {"_"}          \* \w

\* First index from i on whose character is outside class (Len(s) + 1 when
\* there is none): the end of a greedy class+ or class* that starts at i.
RECURSIVE SpanEnd(_, _, _)
SpanEnd(s, i, class) ==
    IF i <= Len(s) /\ s[i] \in class THEN SpanEnd(s, i + 1, class) ELSE i

\* \b between s[i-1] and s[i].
WordBoundary(s, i) ==
    (i > 1 /\ s[i - 1] \in WordChars) # (i <= Len(s) /\ s[i] \in WordChars)

\* re.sub(pattern, repl, s) from index pos on, for a pattern given by its
\* matches: matches[k].end is 0 when the pattern does not match at index k,
\* else the index after the match that starts at k, which matches[k].repl
\* replaces.  The leftmost match is replaced and the scan goes on after it.
NoMatch == [end |-> 0, repl |-> <<>>]
Match(end, repl) == [end |-> end, repl |-> repl]

RECURSIVE Substitute(_, _, _)
Substitute(s, matches, pos) ==
    LET starts == {k \in pos..Len(s) : matches[k].end > 0}
    IN  IF starts = {} THEN SubSeq(s, pos, Len(s))
        ELSE LET k == CHOOSE m \in starts : \A j \in starts : m <= j
             IN  SubSeq(s, pos, k - 1) \o matches[k].repl
                 \o Substitute(s, matches, matches[k].end)

\* re.sub(r'\s+', ' ', s)
CollapseWhitespace(s) ==
    Substitute(s, [k \in 1..Len(s) |->
                     IF s[k] \in Whitespace
                     THEN Match(SpanEnd(s, k, Whitespace), <<" ">>)
                     ELSE NoMatch], 1)

\* re.sub(r'\s+([,.!?;:])', r'\1', s)
SpaceBeforePunctuation(s) ==
    Substitute(s, [k \in 1..Len(s) |->
                     LET e == SpanEnd(s, k, Whitespace)
                     IN  IF /\ s[k] \in Whitespace
                            /\ e <= Len(s)
                            /\ s[e] \in Punctuation
                         THEN Match(e + 1, <<s[e]>>)
                         ELSE NoMatch], 1)

\* re.sub(r'([,.!?;:])\s*', r'\1 ', s)
SpaceAfterPunctuation(s) ==
    Substitute(s, [k \in 1..Len(s) |->
                     IF s[k] \in Punctuation
                     THEN Match(SpanEnd(s, k + 1, Whitespace), <<s[k], " ">>)
                     ELSE NoMatch], 1)

\* Last index up to i whose character is not whitespace (0 when none).
RECURSIVE LastNonSpace(_, _)
LastNonSpace(s, i) ==
    IF i >= 1 /\ s[i] \in Whitespace THEN LastNonSpace(s, i - 1) ELSE i

\* s.strip()
Strip(s) ==
    LET first == SpanEnd(s, 1, Whitespace)
        last == LastNonSpace(s, Len(s))
    IN  IF first > last THEN <<>> ELSE SubSeq(s, first, last)

\* re.sub(r'\b([a-z])\s+([a-z])\b', r'\1\2', s)
JoinBrokenLetters(s) ==
    Substitute(s, [k \in 1..Len(s) |->
                     LET e == SpanEnd(s, k + 1, Whitespace)
                     IN  IF /\ s[k] \in LowerLetters
                            /\ WordBoundary(s, k)
                            /\ e > k + 1
                            /\ e <= Len(s)
                            /\ s[e] \in LowerLetters
                            /\ WordBoundary(s, e + 1)
                         THEN Match(e + 1, <<s[k], s[e]>>)
                         ELSE NoMatch], 1)

clean_basic_text(text) ==
    IF Strip(text) = <<>> THEN <<>>
    ELSE LET collapsed == CollapseWhitespace(text)
             before == SpaceBeforePunctuation(collapsed)
             after == SpaceAfterPunctuation(before)
         IN  JoinBrokenLetters(Strip(after))

\* re.sub(r'\b([a-zA-Z])\s+([a-zA-Z])\s*(?=[,\.\s])', r'\1_\2', s).  The
\* greedy \s* gives back one whitespace character when the character after
\* the run is neither ',' nor '.'.
JoinSubscripts(s) ==
    Substitute(s, [k \in 1..Len(s) |->
                     LET e == SpanEnd(s, k + 1, Whitespace)
                         f == SpanEnd(s, e + 1, Whitespace)
                         letters == /\ s[k] \in Letters
                                    /\ WordBoundary(s, k)
                                    /\ e > k + 1
                                    /\ e <= Len(s)
                                    /\ s[e] \in Letters
                     IN  IF letters /\ f <= Len(s) /\ s[f] \in {",", "."}
                         THEN Match(f, <<s[k], "_", s[e]>>)
                         ELSE IF letters /\ f > e + 1
                              THEN Match(f - 1, <<s[k], "_", s[e]>>)
                              ELSE NoMatch], 1)

\* re.sub(r'(\w+)-\s+(\w+)', r'\1\2', s)
JoinHyphenated(s) ==
    Substitute(s, [k \in 1..Len(s) |->
                     LET w == SpanEnd(s, k, WordChars)
                         g == SpanEnd(s, w + 1, Whitespace)
                         h == SpanEnd(s, g, WordChars)
                     IN  IF /\ s[k] \in WordChars
                            /\ w <= Len(s)
                            /\ s[w] = "-"
                            /\ g > w + 1
                            /\ h > g
                         THEN Match(h, SubSeq(s, k, w - 1)
                                       \o SubSeq(s, g, h - 1))
                         ELSE NoMatch], 1)

\* re.sub(r'\.{3,}', '...', s)
CollapsePeriods(s) ==
    Substitute(s, [k \in 1..Len(s) |->
                     LET d == SpanEnd(s, k, {"."})
                     IN  IF d - k >= 3 THEN Match(d, <<".", ".", ".">>)
                         ELSE NoMatch], 1)

\* re.sub(r',\s*,+', ',', s)
CollapseCommas(s) ==
    Substitute(s, [k \in 1..Len(s) |->
                     LET e == SpanEnd(s, k + 1, Whitespace)
                     IN  IF s[k] = "," /\ e <= Len(s) /\ s[e] = ","
                         THEN Match(SpanEnd(s, e, {","}), <<",">>)
                         ELSE NoMatch], 1)

\* The substitutions for bracketed references, author-year citations, the
\* element-of sign, "trans former" / "multi head" / "self attention",
\* Figure/Table references, degrees and percentages each need a character
\* that no text of a run holds ('[', '(', the sign, 'n', 'l', 'f', 'F', 'T',
\* the degree sign, '%'): they match nowhere in a text over Chars, '_', a
\* line break and the letters of "Abstract".
clean_pdf_artifacts(text) ==
    IF text = <<>> THEN <<>>
    ELSE LET subscripts == JoinSubscripts(text)
             hyphens == JoinHyphenated(subscripts)
             periods == CollapsePeriods(hyphens)
             commas == CollapseCommas(periods)
         IN  Strip(CollapseWhitespace(commas))

\* re.sub(r'^\s*\d+\.?\s*$', '', s, flags=re.MULTILINE) for a text of one
\* line, which is what clean_pdf_artifacts returns: the line is dropped when
\* it holds a number, with or without a period, and nothing else.
RemoveSectionNumber(s) ==
    LET a == SpanEnd(s, 1, Whitespace)
        d == SpanEnd(s, a, Digits)
        p == IF d <= Len(s) /\ s[d] = "." THEN d + 1 ELSE d
        z == SpanEnd(s, p, Whitespace)
    IN  IF d > a /\ z = Len(s) + 1 THEN <<>> ELSE s

\* The citation, abbreviation ("e.g.", "i.e.", "vs.", "etc.") and equation
\* substitutions need '(', 'e', 'i', 'v' or 'E', which no text of a run
\* holds.
clean_academic_text(text) ==
    IF text = <<>> THEN <<>> ELSE RemoveSectionNumber(text)

clean_text_comprehensive(text) ==
    clean_academic_text(clean_pdf_artifacts(clean_basic_text(text)))

\* The cleaner applied to a raw text and then to its own output.
RunCleaner ==
    /\ clean_run.state = "cleaning"
    /\ Len(clean_run.outs) < MaxCleanRuns
    /\ LET input == IF clean_run.outs = <<>> THEN clean_run.text
                    ELSE clean_run.outs[Len(clean_run.outs)]
       IN  clean_run' = [clean_run EXCEPT
                            !.outs = Append(@, clean_text_comprehensive(input))]
    /\ UNCHANGED <<TaskVars, generator, PYPDF2_AVAILABLE, PipelineVars,
                   chunk_run, extract_run>>

CleanInit ==
    /\ TasksAtRest
    /\ PipelineAtRest
    /\ generator = None
    /\ PYPDF2_AVAILABLE = TRUE
    /\ chunk_run = NoRun
    /\ extract_run = NoRun
    /\ \E text \in Texts :
           clean_run = [state |-> "cleaning", text |-> text, outs |-> <<>>]

CleanNext == RunCleaner

CleanSpec == CleanInit /\ [][CleanNext]_vars

\* C19: the cleaner is idempotent: cleaning the cleaned text gives the
\* cleaned text again, for every raw text.
C19_CleanerIdempotent ==
    (clean_run.state = "cleaning" /\ Len(clean_run.outs) >= 2)
    => clean_run.outs[2] = clean_run.outs[1]

\* ------------------------------------------------------------- chunker
\* nltk.sent_tokenize is a library call: a run starts from the sentence list
\* it returns.  A sentence is known by its position in that list and by its
\* number of words, len(sentence.split()); the text of a chunk, the
\* sentences joined by ' ', is the sequence of the positions it holds.
MaxSentences == 3    \* sentences of a text

SentenceWords == {40, 100, 300, 460, 1000}
SentenceLists == UNION { [1..n -> SentenceWords] : n \in 0..MaxSentences }
ModelTypes == {"bart", "BART", "longformer", "t5"}

\* model_type.lower()
LowerModelType(model_type) ==
    CASE model_type = "BART" -> "bart"
      [] OTHER -> model_type

\* target_words, max_words and min_words of a model type.
ChunkParameters(model_type) ==
    CASE LowerModelType(model_type) = "bart"
           -> [target_words |-> 350, max_words |-> 450, min_words |-> 100]
      [] LowerModelType(model_type) = "longformer"
           -> [target_words |-> 1000, max_words |-> 1200, min_words |-> 300]
      [] OTHER
           -> [target_words |-> 350, max_words |-> 450, min_words |-> 100]

\* The dict appended to chunks for current_chunk.
ChunkOf(current_chunk, current_word_count, model_type) ==
    [text |-> current_chunk,
     word_count |-> current_word_count,
     sentence_count |-> Len(current_chunk),
     model_type |-> model_type]

\* The locals of chunk_text_for_models before its loop.
ChunkLoopStart == [chunks |-> <<>>, current_chunk |-> <<>>,
                   current_word_count |-> 0]

\* mutant: the loop never closes a chunk at the target word count
ChunkLoopBodyNoTarget(st, i, sentence_words, model_type) ==
    LET p == ChunkParameters(model_type)
        closed ==
            IF /\ st.current_word_count + sentence_words > p.max_words
               /\ st.current_chunk # <<>>
            THEN [chunks |-> Append(st.chunks,
                                    ChunkOf(st.current_chunk,
                                            st.current_word_count,
                                            model_type)),
                  current_chunk |-> <<>>,
                  current_word_count |-> 0]
            ELSE st
    IN  [closed EXCEPT !.current_chunk = Append(@, i),
                       !.current_word_count = @ + sentence_words]

\* One iteration of the loop over the sentences, for the sentence at
\* position i with sentence_words words.
ChunkLoopBody(st, i, sentence_words, model_type) ==
    LET p == ChunkParameters(model_type)
        closed ==
            IF /\ st.current_word_count + sentence_words > p.max_words
               /\ st.current_chunk # <<>>
            THEN [chunks |-> Append(st.chunks,
                                    ChunkOf(st.current_chunk,
                                            st.current_word_count,
                                            model_type)),
                  current_chunk |-> <<>>,
                  current_word_count |-> 0]
            ELSE st
        added == [closed EXCEPT
                     !.current_chunk = Append(@, i),
                     !.current_word_count = @ + sentence_words]
    IN  IF added.current_word_count >= p.target_words
        THEN [chunks |-> Append(added.chunks,
                                ChunkOf(added.current_chunk,
                                        added.current_word_count,
                                        model_type)),
              current_chunk |-> <<>>,
              current_word_count |-> 0]
        ELSE added

\* The locals after the first n iterations of the loop.
RECURSIVE ChunkLoop(_, _, _)
ChunkLoop(sentences, n, model_type) ==
    IF n = 0 THEN ChunkLoopStart
    ELSE ChunkLoopBody(ChunkLoop(sentences, n - 1, model_type),
                       n, sentences[n], model_type)

\* mutant: the merge extends the text of the last chunk but not its counts
ChunkRemainderStaleCounts(st, model_type) ==
    LET p == ChunkParameters(model_type)
        n == Len(st.chunks)
    IN  IF st.current_chunk # <<>> /\ st.current_word_count >= p.min_words
        THEN Append(st.chunks, ChunkOf(st.current_chunk,
                                       st.current_word_count, model_type))
        ELSE IF st.current_chunk # <<>> /\ st.chunks # <<>>
             THEN [st.chunks EXCEPT
                      ![n] = [@ EXCEPT !.text = @ \o st.current_chunk]]
             ELSE st.chunks

\* The chunk list returned after the loop: the remaining sentences become a
\* chunk, are merged into the last chunk, or are left out.
ChunkRemainder(st, model_type) ==
    LET p == ChunkParameters(model_type)
        n == Len(st.chunks)
    IN  IF st.current_chunk # <<>> /\ st.current_word_count >= p.min_words
        THEN Append(st.chunks, ChunkOf(st.current_chunk,
                                       st.current_word_count, model_type))
        ELSE IF st.current_chunk # <<>> /\ st.chunks # <<>>
             THEN [st.chunks EXCEPT
                      ![n] = [@ EXCEPT
                                 !.text = @ \o st.current_chunk,
                                 !.word_count = @ + st.current_word_count,
                                 !.sentence_count = @ + Len(st.current_chunk)]]
             ELSE st.chunks

\* An empty text returns [] before tokenizing; it has no sentences.
chunk_text_for_models(sentences, model_type) ==
    IF sentences = <<>> THEN <<>>
    ELSE ChunkRemainder(ChunkLoop(sentences, Len(sentences), model_type),
                        model_type)

RunChunker ==
    /\ chunk_run.state = "input"
    /\ chunk_run' = [chunk_run EXCEPT
                        !.state = "chunked",
                        !.chunks = chunk_text_for_models(chunk_run.sentences,
                                                         chunk_run.model_type)]
    /\ UNCHANGED <<TaskVars, generator, PYPDF2_AVAILABLE, PipelineVars,
                   clean_run, extract_run>>

ChunkInit ==
    /\ TasksAtRest
    /\ PipelineAtRest
    /\ generator = None
    /\ PYPDF2_AVAILABLE = TRUE
    /\ clean_run = NoRun
    /\ extract_run = NoRun
    /\ \E sentences \in SentenceLists, model_type \in ModelTypes :
           chunk_run = [state |-> "input", sentences |-> sentences,
                        model_type |-> model_type, chunks |-> <<>>]

ChunkNext == RunChunker

ChunkSpec == ChunkInit /\ [][ChunkNext]_vars

\* The texts of the first n chunks, concatenated in order.
RECURSIVE ConcatTexts(_, _)
ConcatTexts(chunks, n) ==
    IF n = 0 THEN <<>> ELSE ConcatTexts(chunks, n - 1) \o chunks[n].text

\* C20: the texts of the returned chunks, concatenated in order, hold every
\* sentence of the input exactly once and in input order.
C20_ChunksReconstructInput ==
    chunk_run.state = "chunked"
    => ConcatTexts(chunk_run.chunks, Len(chunk_run.chunks))
           = [i \in 1..Len(chunk_run.sentences) |-> i]

\* The chunks of a finished run.
Chunked == chunk_run.state = "chunked"

\* The word bounds of a consumer tag: short-form unless the tag is the
\* long-form one.
MinWords(model_type) == IF model_type = "longformer" THEN 300 ELSE 100
TargetWords(model_type) == IF model_type = "longformer" THEN 1000 ELSE 350
MaxWords(model_type) == IF model_type = "longformer" THEN 1200 ELSE 450

\* C21: every returned chunk has a word count within [min, max] of its
\* tag, except a sole chunk, which may be below min.
C21_ChunkSizeBounds ==
    Chunked
    => \A k \in 1..Len(chunk_run.chunks) :
           /\ chunk_run.chunks[k].word_count <= MaxWords(chunk_run.model_type)
           /\ \/ chunk_run.chunks[k].word_count
                     >= MinWords(chunk_run.model_type)
              \/ Len(chunk_run.chunks) = 1

\* C22: a non-empty input never yields an empty chunk list (a sole
\* undersized remainder is emitted), and an undersized remainder is never
\* emitted after another chunk: the last of several chunks reaches min.
C22_RemainderMergedOrEmitted ==
    (Chunked /\ chunk_run.sentences # <<>>)
    => /\ chunk_run.chunks # <<>>
       /\ Len(chunk_run.chunks) >= 2
          => chunk_run.chunks[Len(chunk_run.chunks)].word_count
                 >= MinWords(chunk_run.model_type)

\* The words of the sentences at the first n positions of text.
RECURSIVE WordsOf(_, _, _)
WordsOf(sentences, text, n) ==
    IF n = 0 THEN 0
    ELSE WordsOf(sentences, text, n - 1) + sentences[text[n]]

\* C23: in every returned chunk word_count is the number of words of the
\* sentences in its text and sentence_count the number of those sentences,
\* also after a remainder was merged into it.
C23_ChunkCountsExact ==
    Chunked
    => \A k \in 1..Len(chunk_run.chunks) :
           LET c == chunk_run.chunks[k]
           IN  /\ c.sentence_count = Len(c.text)
               /\ c.word_count = WordsOf(chunk_run.sentences, c.text,
                                         Len(c.text))

\* C23 witness: the 40 words left after a chunk of 400 were merged into it.
C23_Witness ==
    /\ Chunked
    /\ chunk_run.sentences = <<300, 100, 40>>
    /\ chunk_run.model_type = "bart"
    /\ Len(chunk_run.chunks) = 1
    /\ chunk_run.chunks[1].text = <<1, 2, 3>>
    /\ chunk_run.chunks[1].word_count = 440
    /\ chunk_run.chunks[1].sentence_count = 3

\* The locals of chunk_text_for_models after n iterations of its loop.
LoopState(n) == ChunkLoop(chunk_run.sentences, n, chunk_run.model_type)

\* The chunks the n-th iteration of the loop has closed.
ClosedBy(n) ==
    SubSeq(LoopState(n).chunks, Len(LoopState(n - 1).chunks) + 1,
           Len(LoopState(n).chunks))

\* Adding the n-th sentence to the running chunk would exceed max.
Overflows(n) ==
    /\ LoopState(n - 1).current_chunk # <<>>
    /\ LoopState(n - 1).current_word_count + chunk_run.sentences[n]
           > MaxWords(chunk_run.model_type)

\* The running word count right after the n-th sentence was added.
RunningCount(n) ==
    IF Overflows(n) THEN chunk_run.sentences[n]
    ELSE LoopState(n - 1).current_word_count + chunk_run.sentences[n]

\* C25: an iteration of the loop closes the running chunk before adding
\* the sentence exactly when adding it would exceed max (the sentence then
\* opens the next chunk), and closes the chunk right after adding the
\* sentence exactly when the running count has reached the target, which
\* it had not reached before; no chunk is closed otherwise, and the chunks
\* closed by the loop are the returned ones (the last possibly extended by
\* the remainder).
C25_ClosedAtMaxOrTarget ==
    Chunked
    => /\ LET closed == LoopState(Len(chunk_run.sentences)).chunks
          IN  \A k \in 1..Len(closed) :
                  /\ k <= Len(chunk_run.chunks)
                  /\ k < Len(closed) => chunk_run.chunks[k] = closed[k]
                  /\ SubSeq(chunk_run.chunks[k].text, 1, Len(closed[k].text))
                         = closed[k].text
       /\ \A n \in 1..Len(chunk_run.sentences) :
              LET before == LoopState(n - 1)
                  after == LoopState(n)
                  reached == RunningCount(n) >= TargetWords(chunk_run.model_type)
                  opened == IF Overflows(n) THEN <<n>>
                            ELSE Append(before.current_chunk, n)
              IN  /\ before.current_word_count
                         < TargetWords(chunk_run.model_type)
                  /\ Len(ClosedBy(n)) = One(Overflows(n)) + One(reached)
                  /\ Overflows(n)
                     => /\ ClosedBy(n)[1].text = before.current_chunk
                        /\ ClosedBy(n)[1].word_count = before.current_word_count
                  /\ reached
                     => /\ ClosedBy(n)[Len(ClosedBy(n))].text = opened
                        /\ ClosedBy(n)[Len(ClosedBy(n))].word_count
                               = RunningCount(n)
                        /\ after.current_chunk = <<>>
                  /\ ~reached
                     => /\ after.current_chunk = opened
                        /\ after.current_word_count = RunningCount(n)

\* C25 witness: the second sentence closed the first chunk because it would
\* have exceeded max, and the third closed the second chunk at the target.
C25_Witness ==
    /\ Chunked
    /\ chunk_run.sentences = <<300, 300, 100>>
    /\ chunk_run.model_type = "bart"
    /\ Len(chunk_run.chunks) = 2
    /\ chunk_run.chunks[1].text = <<1>>
    /\ chunk_run.chunks[2].text = <<2, 3>>

\* C24: the four tier budgets of the processor are strictly increasing,
\* quick < normal < extended < maximum, in every state.
C24_TierBudgetsIncrease ==
    /\ timeout_strategies.quick < timeout_strategies.normal
    /\ timeout_strategies.normal < timeout_strategies.extended
    /\ timeout_strategies.extended < timeout_strategies.maximum

\* A step in which generator.process_single_paper is called for task_id.
PipelineRunFor(task_id) ==
    /\ running.kind \in {"background", "sync"}
    /\ running.task_id = task_id
    /\ running' = Idle
    /\ generator # None

\* A pipeline call for the task has ended before: it left its result or
\* its error in the record, which only a delete removes.
HasRunBefore(task_id) ==
    \/ processing_results[task_id].completed_at
    \/ processing_results[task_id].failed_at

\* C28: process_single_paper is called at most once per task id: it is
\* never called for a task whose record holds the outcome of an earlier
\* call.
C28_PipelineRunsOnce ==
    [][\A task_id \in TaskIds :
           PipelineRunFor(task_id) => ~HasRunBefore(task_id)]_vars

\* C29: a task id that was handed out and is absent from the table stays
\* absent in every step, also in the step of its late background task; the
\* step that removes a record and the step of a background task whose
\* record is gone leave all other records as they are.
C29_DeletedStaysDeleted ==
    [][\A task_id \in TaskIds :
           /\ (task_id < next_uuid /\ task_id \notin DOMAIN processing_results)
              => task_id \notin DOMAIN processing_results'
           /\ (/\ task_id \in DOMAIN processing_results
               /\ task_id \notin DOMAIN processing_results')
              => \A other \in DOMAIN processing_results \ {task_id} :
                     /\ other \in DOMAIN processing_results'
                     /\ processing_results'[other] = processing_results[other]
           /\ (/\ task_id \notin DOMAIN processing_results
               /\ background_tasks'[task_id] < background_tasks[task_id])
              => processing_results' = processing_results]_vars

\* C29 witness: task 1 was deleted while its background task was
\* scheduled.
C29_Witness ==
    /\ 1 < next_uuid
    /\ 1 \notin DOMAIN processing_results
    /\ background_tasks[1] > 0
    /\ request = TaskRequest("delete", 1)

\* -------------------------------------------------- fallback extractor
\* extract_with_pypdf2 after the PDF library has returned the page texts.
\* The text of a PDF is a list of paragraphs which the page text separates
\* by an empty line; the paragraphs of a run are drawn from four kinds,
\* built from the letters of "Abstract" so that the length and keyword
\* tests of the extractor fall both ways.
MaxParagraphs == 3   \* paragraphs of a PDF

\* n characters of words of nine letters.
Filler(n) == [i \in 1..n |-> IF i % 10 = 0 THEN " " ELSE "a"]

BodyParagraph == Filler(59)
ShortParagraph == Filler(19)
HeadingLine == <<"A", "b", "s", "t", "r", "a", "c", "t">>
HeaderParagraph == HeadingLine \o <<" ">> \o Filler(49)

PdfParagraphs ==
    {BodyParagraph, ShortParagraph, HeadingLine, HeaderParagraph}
PdfTexts == UNION { [1..n -> PdfParagraphs] : n \in 0..MaxParagraphs }

section_keywords ==
    <<<<"a", "b", "s", "t", "r", "a", "c", "t">>,
      <<"i", "n", "t", "r", "o", "d", "u", "c", "t", "i", "o", "n">>,
      <<"m", "e", "t", "h", "o", "d", "o", "l", "o", "g", "y">>,
      <<"m", "e", "t", "h", "o", "d", "s">>,
      <<"r", "e", "s", "u", "l", "t", "s">>,
      <<"d", "i", "s", "c", "u", "s", "s", "i", "o", "n">>,
      <<"c", "o", "n", "c", "l", "u", "s", "i", "o", "n">>,
      <<"r", "e", "f", "e", "r", "e", "n", "c", "e", "s">>>>

Content == <<"C", "o", "n", "t", "e", "n", "t">>
UnknownTitle == <<"U", "n", "k", "n", "o", "w", "n", " ", "T", "i", "t", "l", "e">>

\* w occurs in s at index i.
OccursAt(s, i, w) ==
    /\ i + Len(w) - 1 <= Len(s)
    /\ SubSeq(s, i, i + Len(w) - 1) = w

\* w in s
Contains(s, w) == \E i \in 1..Len(s) : OccursAt(s, i, w)

\* s.split(sep)
RECURSIVE Split(_, _)
Split(s, sep) ==
    IF Contains(s, sep)
    THEN LET i == CHOOSE k \in 1..Len(s) :
                      /\ OccursAt(s, k, sep)
                      /\ \A j \in 1..(k - 1) : ~OccursAt(s, j, sep)
         IN  <<SubSeq(s, 1, i - 1)>>
             \o Split(SubSeq(s, i + Len(sep), Len(s)), sep)
    ELSE <<s>>

\* sep.join(parts)
RECURSIVE Join(_, _)
Join(parts, sep) ==
    IF parts = <<>> THEN <<>>
    ELSE IF Len(parts) = 1 THEN parts[1]
    ELSE parts[1] \o sep \o Join(Tail(parts), sep)

\* The page text of a PDF: its paragraphs separated by an empty line.
PageText(paragraphs) == Join(paragraphs, <<"\n", "\n">>)

\* full_text after the loop over the pages (one page).
RawFullText(paragraphs) == PageText(paragraphs) \o <<"\n">>

\* mutant: the text is split into paragraphs without being cleaned
FullTextUncleaned(raw_text) == raw_text

\* full_text = clean_text_comprehensive(full_text)
FullTextCleaned(raw_text) == clean_text_comprehensive(raw_text)

\* [p.strip() for p in full_text.split('\n\n') if len(p.strip()) > 50]
ParagraphsOf(full_text) ==
    LET parts == Split(full_text, <<"\n", "\n">>)
        stripped == [i \in 1..Len(parts) |-> Strip(parts[i])]
    IN  SelectSeq(stripped, LAMBDA para : Len(para) > 50)

\* any(keyword in paragraph_lower and len(paragraph) < 100 ...)
is_section_header(paragraph) ==
    \E k \in 1..Len(section_keywords) :
        /\ Contains(Lower(paragraph), section_keywords[k])
        /\ Len(paragraph) < 100

\* sections[key] = text on a dict kept as the list of its items in
\* insertion order.
DictSet(sections, key, text) ==
    IF \E i \in 1..Len(sections) : sections[i].key = key
    THEN [i \in 1..Len(sections) |->
             IF sections[i].key = key THEN [key |-> key, text |-> text]
             ELSE sections[i]]
    ELSE Append(sections, [key |-> key, text |-> text])

\* if current_content: sections[current_section] = " ".join(current_content)
SaveSection(st) ==
    IF st.current_content # <<>>
    THEN DictSet(st.sections, st.current_section,
                 Join(st.current_content, <<" ">>))
    ELSE st.sections

\* The locals before the loop over the paragraphs.
SectionLoopStart ==
    [sections |-> <<>>, current_section |-> Content, current_content |-> <<>>]

\* One iteration of the loop over the paragraphs.
SectionLoopBody(st, paragraph) ==
    IF is_section_header(paragraph)
    THEN [sections |-> SaveSection(st),
          current_section |-> Strip(paragraph),
          current_content |-> <<>>]
    ELSE [st EXCEPT !.current_content = Append(@, paragraph)]

\* The locals after the first n iterations.
RECURSIVE SectionLoop(_, _)
SectionLoop(paragraphs, n) ==
    IF n = 0 THEN SectionLoopStart
    ELSE SectionLoopBody(SectionLoop(paragraphs, n - 1), paragraphs[n])

\* The smaller of two numbers.
Least(a, b) == IF a < b THEN a ELSE b

\* sections after the loop over paragraphs[:20] and the save of the last
\* section.
SectionsOf(paragraphs) ==
    SaveSection(SectionLoop(paragraphs, Least(Len(paragraphs), 20)))

\* The first line whose stripped length is between 10 and 200, stripped.
TitleOf(full_text) ==
    LET lines == Split(full_text, <<"\n">>)
        good == {i \in 1..Len(lines) :
                    10 < Len(Strip(lines[i])) /\ Len(Strip(lines[i])) < 200}
    IN  IF good = {} THEN UnknownTitle
        ELSE Strip(lines[CHOOSE i \in good : \A j \in good : i <= j])

\* The first 500 characters of the first section whose key holds
\* "abstract", when the text holds "abstract" at all.
AbstractOf(full_text, sections) ==
    LET hits == {i \in 1..Len(sections) :
                    Contains(Lower(sections[i].key), section_keywords[1])}
    IN  IF Contains(Lower(full_text), section_keywords[1]) /\ hits # {}
        THEN LET first == CHOOSE i \in hits : \A j \in hits : i <= j
             IN  SubSeq(sections[first].text, 1,
                        Least(Len(sections[first].text), 500))
        ELSE <<>>

\* The dict extract_with_pypdf2 returns for the raw text of the pages.
ExtractedPaper(raw_text) ==
    LET full_text == FullTextCleaned(raw_text)
        sections == SectionsOf(ParagraphsOf(full_text))
    IN  [title |-> TitleOf(full_text),
         authors |-> <<>>,
         abstract |-> AbstractOf(full_text, sections),
         sections |-> sections,
         processing_method |-> "PyPDF2_fallback",
         processing_stats |-> [total_pages |-> 1,
                               total_characters |-> Len(full_text),
                               sections_found |-> Len(sections)]]

\* The summaries dict process_single_paper builds from paper_data: the
\* keys that are copied from it.
SummariesFor(paper_data) ==
    [kind |-> "summaries",
     title |-> paper_data.title,
     authors |-> paper_data.authors,
     processing_method |-> paper_data.processing_method,
     sections_found |-> [i \in 1..Len(paper_data.sections) |->
                            paper_data.sections[i].key],
     original_abstract |-> paper_data.abstract,
     extraction_stats |-> paper_data.processing_stats]

\* extract_with_pypdf2 on the page text, followed by the summaries dict
\* process_single_paper returns for the paper, which the task stores as
\* the result of a completed task.
RunExtractor ==
    /\ extract_run.state = "opened"
    /\ extract_run' =
           [extract_run EXCEPT
               !.state = "extracted",
               !.full_text = FullTextCleaned(RawFullText(extract_run.pdf_text)),
               !.paper = ExtractedPaper(RawFullText(extract_run.pdf_text)),
               !.summaries =
                   SummariesFor(ExtractedPaper(RawFullText(extract_run.pdf_text)))]
    /\ UNCHANGED <<TaskVars, generator, PYPDF2_AVAILABLE, PipelineVars,
                   clean_run, chunk_run>>

ExtractInit ==
    /\ TasksAtRest
    /\ PipelineAtRest
    /\ generator = None
    /\ PYPDF2_AVAILABLE = TRUE
    /\ clean_run = NoRun
    /\ chunk_run = NoRun
    /\ \E pdf_text \in PdfTexts :
           extract_run = [state |-> "opened", pdf_text |-> pdf_text,
                          full_text |-> <<>>, paper |-> None,
                          summaries |-> None]

ExtractNext == RunExtractor

ExtractSpec == ExtractInit /\ [][ExtractNext]_vars

Extracted == extract_run.state = "extracted"

\* The section mapping of the extracted paper.
SectionsFound == extract_run.paper.sections

\* C30: the section mapping the fallback extractor returns has at most one
\* entry: the cleaned text holds no line break, hence has at most one
\* paragraph, and no header paragraph ever gets content: the only key
\* there can be is the default "Content".
C30_AtMostOneSection ==
    Extracted
    => /\ ~Contains(extract_run.full_text, <<"\n">>)
       /\ Len(ParagraphsOf(extract_run.full_text)) <= 1
       /\ Len(SectionsFound) <= 1
       /\ \A i \in 1..Len(SectionsFound) : SectionsFound[i].key = Content
       /\ extract_run.paper.processing_stats.sections_found <= 1

\* C30 witness: a PDF with a header paragraph followed by two paragraphs of
\* content came out with the single section "Content".
C30_Witness ==
    /\ Extracted
    /\ extract_run.pdf_text
           = <<HeaderParagraph, BodyParagraph, BodyParagraph>>
    /\ Len(SectionsFound) = 1
    /\ SectionsFound[1].key = Content

\* The paragraph holds one of the section keywords, whatever its case.
HasKeyword(paragraph) ==
    \E k \in 1..Len(section_keywords) :
        Contains(Lower(paragraph), section_keywords[k])

\* C26: a paragraph that is not a header is filed under the header paragraph
\* right before it, and a PDF text without any section keyword is filed
\* under the one section "Content", whose text holds every paragraph.
C26_ContentUnderHeaders ==
    Extracted
    => /\ \A i \in 1..(Len(extract_run.pdf_text) - 1) :
              (/\ HasKeyword(extract_run.pdf_text[i])
               /\ Len(extract_run.pdf_text[i]) < 100
               /\ ~HasKeyword(extract_run.pdf_text[i + 1]))
              => \E n \in 1..Len(SectionsFound) :
                     /\ SectionsFound[n].key = extract_run.pdf_text[i]
                     /\ Contains(SectionsFound[n].text,
                                 extract_run.pdf_text[i + 1])
       /\ (/\ extract_run.pdf_text # <<>>
           /\ \A i \in 1..Len(extract_run.pdf_text) :
                  ~HasKeyword(extract_run.pdf_text[i]))
          => /\ Len(SectionsFound) = 1
             /\ SectionsFound[1].key = Content
             /\ \A i \in 1..Len(extract_run.pdf_text) :
                    Contains(SectionsFound[1].text, extract_run.pdf_text[i])

\* C27: the result a completed task carries has a non-empty title and a
\* sections list with at least one entry, here for the fallback path.
C27_CompletedHasTitleAndSections ==
    Extracted
    => /\ extract_run.summaries.title # <<>>
       /\ Len(extract_run.summaries.sections_found) >= 1

====
